---- MODULE Spec2Model ----
(***************************************************************************)
(* Duplicate prevention and call processing of the Exotel to Slack system. *)
(*                                                                         *)
(* The store is the SQLite table processed_calls (src/app.py), one row per *)
(* call_id.  A webhook delivery runs exotel_webhook; a delivery that is    *)
(* claimed schedules one background run of process_call_with_rate_limit.   *)
(* Every store operation opens a connection of its own (_get_connection)   *)
(* and every SQL statement is a step of its own: mark_call_processing      *)
(* reads with a SELECT and writes with a later INSERT or UPDATE, and       *)
(* Python's sqlite3 opens a transaction only at the write.  The database   *)
(* file is shared by every server process and by the maintenance script,   *)
(* so steps of different deliveries, runs and maintenance interleave.      *)
(*                                                                         *)
(* Time is counted in whole hours.                                         *)
(***************************************************************************)
EXTENDS Integers, FiniteSets, Sequences, TLC

\* ------------------------------------------------------------------ bounds
MaxCalls == 1
MaxDeliveries == 2
MaxTime == 2
\* Largest value of MAX_CONCURRENT_CALLS the environment is let to set.
MaxSlots == 2
MaxPhones == 2
MaxLookups == 3
MaxClock == 3

\* ------------------------------------------------------- program constants
\* timedelta(hours=1) of mark_call_processing, in hours.
StalenessWindow == 1
\* timedelta(hours=2) of emergency_cleanup_old_records, in hours.
EmergencyWindow == 2
\* timedelta(hours=1) of cleanup_database, in hours.
CleanupWindow == 1

CallIds == 1..MaxCalls
Deliveries == 1..MaxDeliveries
\* Age in hours of the rows an earlier process left in the database file.
OldAge == EmergencyWindow + 1
Times == (0 - OldAge)..MaxTime

NoRecord == [absent |-> TRUE]

\* The body of a delivery that has not arrived.
NoPayload == [has_ids |-> FALSE, has_direction |-> FALSE, far |-> FALSE]

\* One row of processed_calls: slack_posted, status, processed_at,
\* transcription_text (the columns the protocol reads or writes).
Records ==
    [posted : BOOLEAN,
     status : {"processing", "completed", "failed"},
     processed_at : Times,
     text : {"Processing...", "transcript", "Error in transcription", "Error: exception"}]

VARIABLES
    now,        \* datetime.utcnow(), in hours
    store,      \* processed_calls: call_id -> row or NoRecord
    MAX_CONCURRENT_CALLS, \* int(os.environ.get('MAX_CONCURRENT_CALLS', '3'))
    free,       \* value of processing_semaphore
    pc,         \* position of each delivery (handler, then its run)
    call,       \* call_id of each delivery (0 before it arrives)
    payload,    \* which required fields the body of each delivery carries
    redelivery, \* whether the delivery arrived after one of its call was claimed
    arrived,    \* the time at which each delivery arrived
    client,     \* CustomerLookup.client is set (credentials were accepted)
    sheet,      \* the phone numbers the customer sheet holds at the moment
    cache,      \* CustomerLookup.cache (its keys)
    cache_loaded,        \* CustomerLookup.cache_loaded
    last_cache_refresh,  \* CustomerLookup.last_cache_refresh (NoRefresh for None)
    clock,      \* the time of the lookups, in refresh intervals
    calls,      \* number of lookup_customer calls made
    answer,     \* the phone number and the result of the last lookup_customer
    plan,       \* what mark_call_processing decided after its SELECT
    result,     \* the handler's response / try_claim result
    transcription, \* the run's local variable transcription
    success,    \* the run's local variable success (post_to_slack result)
    mom,        \* the run's local variable mom
    errors,     \* generate_mom: the failures of the attempts made so far
    commits,    \* number of executed mark_call_processed writes of a run
    ending,     \* how the run left process_call_with_rate_limit
    notified,   \* per call_id: notifications delivered to Slack (a posted
                \* row of an earlier process stands for one)
    everPosted  \* per call_id: mark_call_processed(success=True) was executed

lookupVars ==
    <<client, sheet, cache, cache_loaded, last_cache_refresh, clock, calls, answer>>

vars == <<now, store, MAX_CONCURRENT_CALLS, free, pc, call, payload, redelivery, arrived, lookupVars, plan, result,
          transcription, success, mom, errors, commits, ending, notified, everPosted>>

runVars == <<transcription, success, mom, errors, commits, ending>>

\* ------------------------------------------------------------------- Init
\* The database file outlives the process: at construction a call_id has no
\* row, or a row an earlier process left OldAge hours ago, of a run that
\* failed to post or of a posted call.
InitialRows ==
    {NoRecord,
     [posted |-> FALSE, status |-> "failed", processed_at |-> 0 - OldAge,
      text |-> "Error in transcription"],
     [posted |-> TRUE, status |-> "completed", processed_at |-> 0 - OldAge,
      text |-> "transcript"]}

\* CustomerLookup.__init__: an empty cache that was never loaded.
NoRefresh == 0 - 1

NoAnswer == [phone |-> 0, result |-> "none"]

LookupConstructed ==
    /\ cache = {}
    /\ cache_loaded = FALSE
    /\ last_cache_refresh = NoRefresh
    /\ clock = 0
    /\ calls = 0
    /\ answer = NoAnswer

Init ==
    /\ client = FALSE
    /\ sheet = {}
    /\ LookupConstructed
    /\ now = 0
    /\ store \in [CallIds -> InitialRows]
    /\ MAX_CONCURRENT_CALLS \in 1..MaxSlots
    /\ free = MAX_CONCURRENT_CALLS
    /\ pc = [d \in Deliveries |-> "new"]
    /\ call = [d \in Deliveries |-> 0]
    /\ payload = [d \in Deliveries |-> NoPayload]
    /\ redelivery = [d \in Deliveries |-> FALSE]
    /\ arrived = [d \in Deliveries |-> 0]
    /\ plan = [d \in Deliveries |-> "none"]
    /\ result = [d \in Deliveries |-> "none"]
    /\ transcription = [d \in Deliveries |-> ""]
    /\ success = [d \in Deliveries |-> FALSE]
    /\ mom = [d \in Deliveries |-> ""]
    /\ errors = [d \in Deliveries |-> <<>>]
    /\ commits = [d \in Deliveries |-> 0]
    /\ ending = [d \in Deliveries |-> "none"]
    /\ notified = [c \in CallIds |-> IF store[c] # NoRecord /\ store[c].posted
                                      THEN 1 ELSE 0]
    /\ everPosted = [c \in CallIds |-> store[c] # NoRecord /\ store[c].posted]

\* ------------------------------------------------------------ store reads
\* A posted check that is satisfied by any record of the call_id.
ProcessedWhenPresent(c) == store[c] # NoRecord

\* A posted check that never finds a posted record.
NeverProcessed(c) == FALSE

\* is_call_processed: SELECT ... WHERE call_id = ? AND slack_posted = 1
is_call_processed(c) ==
    store[c] # NoRecord /\ store[c].posted

\* ------------------------------------------------------------- try_claim
\* A retry branch that opens at exactly the staleness window.
ClaimDecisionInclusive(existing, t) ==
    IF existing = NoRecord THEN "insert"
    ELSE IF existing.posted THEN "already_posted"
    ELSE IF existing.status = "processing" THEN "in_flight"
    ELSE IF existing.processed_at <= t - StalenessWindow THEN "update"
    ELSE "recent_failure"

\* A retry branch that also takes a stale row in status 'processing'.
ClaimDecisionStaleRetry(existing, t) ==
    IF existing = NoRecord THEN "insert"
    ELSE IF existing.posted THEN "already_posted"
    ELSE IF existing.processed_at < t - StalenessWindow THEN "update"
    ELSE IF existing.status = "processing" THEN "in_flight"
    ELSE "recent_failure"

\* The branch mark_call_processing takes on the row its SELECT returned, at
\* time t: "insert" / "update" lead to a write, the others return False.
ClaimDecision(existing, t) ==
    IF existing = NoRecord THEN "insert"
    ELSE IF existing.posted THEN "already_posted"
    ELSE IF existing.status = "processing" THEN "in_flight"
    ELSE IF existing.processed_at < t - StalenessWindow THEN "update"
    ELSE "recent_failure"

\* The row of the INSERT: status 'processing', slack_posted False.
ClaimedRow(t) ==
    [posted |-> FALSE, status |-> "processing", processed_at |-> t,
     text |-> "Processing..."]

\* The UPDATE of the retry branch: slack_posted is not in its SET list.
RetriedRow(row, t) ==
    [row EXCEPT !.status = "processing", !.processed_at = t,
                !.text = "Processing..."]

\* A commit that never records a posted call.
\* A commit that writes phase completed whatever the posted flag.
CommittedRowAlwaysCompleted(txt, ok, t) ==
    [posted |-> ok, status |-> "completed", processed_at |-> t, text |-> txt]

CommittedRowNeverPosted(txt, ok, t) ==
    [posted |-> FALSE, status |-> "failed", processed_at |-> t, text |-> txt]

\* The row INSERT OR REPLACE writes in mark_call_processed.
CommittedRow(txt, ok, t) ==
    [posted |-> ok, status |-> IF ok THEN "completed" ELSE "failed",
     processed_at |-> t, text |-> txt]

\* -------------------------------------------------------- exotel_webhook
\* What a delivery's payload, the configuration and the store's availability
\* decide in the handler before the claim:
\*   has_ids          the body is JSON and carries Sid, From and PhoneNumber
\*                    (call_id, from_number, to_number)
\*   has_direction    the body carries Direction
\*   inbound_short    direction inbound and (no recording_url or duration <= 10)
\*   layer1_raises    is_call_processed raises a storage error
\*   age_ok           the time validation lets the delivery through (AgeOk)
\*   slack_configured SLACK_WEBHOOK_URL is set
\*   authorized       find_agent_from_call finds an agent
\*   category_skip    Support-CAND agent with a Normal call, or the agent's
\*                    department is not in ALLOWED_DEPT_LIST
GateInputs ==
    [has_ids : BOOLEAN, has_direction : BOOLEAN,
     inbound_short : BOOLEAN, layer1_raises : BOOLEAN,
     age_ok : BOOLEAN, slack_configured : BOOLEAN, authorized : BOOLEAN,
     category_skip : BOOLEAN]

\* if hours_diff > 8760, in hours.
AgeWindowHours == 8760

\* A UTC offset a reported timestamp may carry, in hours (+05:00).
SomeOffset == 5

\* The timestamp field of a body: missing, not parseable, or a time that
\* lies age hours before the current time (after it when negative), written
\* with a UTC offset of offset hours.
Stamp(k, a, o) == [kind |-> k, age |-> a, offset |-> o]

Timestamps ==
    {Stamp("missing", 0, 0), Stamp("unparseable", 0, 0),
     Stamp("iso", 0, 0),
     Stamp("iso", AgeWindowHours + 1, 0),
     Stamp("iso", 0 - (AgeWindowHours + 1), 0),
     Stamp("iso", AgeWindowHours + 1, SomeOffset)}

Abs(n) == IF n < 0 THEN 0 - n ELSE n

\* call_time = call_date.replace(tzinfo=None) keeps the wall-clock time of
\* the timestamp and drops its offset; hours_diff = abs(utcnow - call_time).
HoursDiff(ts) == Abs(ts.age - ts.offset)

\* The time validation lets the delivery through: no timestamp, a parse
\* error (caught and logged), or not (hours_diff > 8760).
AgeOk(ts) == ts.kind # "iso" \/ ~(HoursDiff(ts) > AgeWindowHours)

\* The reported time lies further than the window from the current time.
Far(ts) == ts.kind = "iso" /\ Abs(ts.age) > AgeWindowHours

\* What the model keeps of a delivery's body: which required fields it
\* carries and whether its timestamp is a time outside the window.
Fields(g, ts) ==
    [has_ids |-> g.has_ids, has_direction |-> g.has_direction, far |-> Far(ts)]

\* ExotelWebhookPayload(**body_json): call_id, from_number, to_number and
\* direction are required (Field(...)); duration, recording_url, timestamp
\* and status have defaults.
Valid(g) == g.has_ids /\ g.has_direction

\* The checks of the handler in the order of the code; "pass" goes on to
\* mark_call_processing.  posted is the answer of is_call_processed.
GateResult(g, posted) ==
    IF ~Valid(g) THEN "validation_error"
    ELSE IF g.inbound_short THEN "skipped_inbound"
    ELSE IF g.layer1_raises THEN "store_fault"
    ELSE IF posted THEN "duplicate_layer1"
    ELSE IF ~g.age_ok THEN "time_window"
    ELSE IF ~g.slack_configured THEN "not_configured"
    ELSE IF ~g.authorized THEN "unauthorized"
    ELSE IF g.category_skip THEN "category_skip"
    ELSE "pass"

\* A handler status that answers 500 for a blocked claim.
HttpStatusBlockedIsError(r) ==
    IF r \in {"validation_error", "store_fault", "integrity_error",
              "not_configured", "recent_failure"}
    THEN 500 ELSE 200

\* The HTTP status of a response: return WebhookResponse(success=True, ...)
\* is 200; raise HTTPException(status_code=500) and every exception the
\* handler's except Exception clause turns into HTTPException(500) is 500.
HttpStatus(r) ==
    IF r \in {"validation_error", "store_fault", "integrity_error",
              "not_configured"}
    THEN 500 ELSE 200

\* Some delivery of call c has been claimed: its handler answered
\* "... queued for processing" after background_tasks.add_task.
Admitted(c) == \E e \in Deliveries : call[e] = c /\ result[e] = "Claimed"

\* The handler gets as far as the time validation.  The timestamp of a
\* body it answers earlier is never read: such bodies are drawn without one.
ReadsTimestamp(g, posted) ==
    Valid(g) /\ ~g.inbound_short /\ ~g.layer1_raises /\ ~posted

\* Deliveries arrive in the order of their numbers (the numbers are labels).
Arrives(d) == pc[d] = "new" /\ (IF d = 1 THEN TRUE ELSE pc[d - 1] # "new")

\* A response that also hands the delivery to the background pipeline.
RespondAndSchedule(d, r) ==
    /\ pc' = [pc EXCEPT ![d] = "queued"]
    /\ result' = [result EXCEPT ![d] = r]

\* The handler returns (or raises) without background_tasks.add_task.
Respond(d, r) ==
    /\ pc' = [pc EXCEPT ![d] = "responded"]
    /\ result' = [result EXCEPT ![d] = r]

\* The handler up to the claim: payload validation, the inbound filter,
\* layer 1 (is_call_processed), then the age check, the Slack configuration,
\* the agent filter and the Support-CAND and department filters.
Webhook(d) ==
    /\ Arrives(d)
    /\ \E c \in CallIds, g \in GateInputs, ts \in Timestamps :
        /\ g.age_ok = AgeOk(ts)
        /\ ReadsTimestamp(g, is_call_processed(c)) \/ ts.kind = "missing"
        /\ call' = [call EXCEPT ![d] = c]
        /\ payload' = [payload EXCEPT ![d] = Fields(g, ts)]
        /\ redelivery' = [redelivery EXCEPT ![d] = Admitted(c)]
        /\ arrived' = [arrived EXCEPT ![d] = now]
        /\ LET r == GateResult(g, is_call_processed(c)) IN
            IF r = "pass"
            THEN /\ pc' = [pc EXCEPT ![d] = "claim_select"]
                 /\ UNCHANGED result
            ELSE Respond(d, r)
    /\ UNCHANGED <<now, store, MAX_CONCURRENT_CALLS, free, plan, runVars, notified, everPosted,
                   lookupVars>>

\* A SELECT step that refreshes processed_at of the record it is blocked by.
ClaimSelectTouches(d) ==
    /\ pc[d] = "claim_select"
    /\ \E fault \in BOOLEAN :
        LET dec == ClaimDecision(store[call[d]], now) IN
        IF fault
        THEN /\ Respond(d, "store_fault")
             /\ UNCHANGED <<plan, store>>
        ELSE IF dec \in {"insert", "update"}
        THEN /\ plan' = [plan EXCEPT ![d] = dec]
             /\ pc' = [pc EXCEPT ![d] = "claim_write"]
             /\ UNCHANGED <<result, store>>
        ELSE /\ Respond(d, dec)
             /\ store' = [store EXCEPT ![call[d]].processed_at = now]
             /\ UNCHANGED plan
    /\ UNCHANGED <<now, MAX_CONCURRENT_CALLS, free, call, payload, redelivery, arrived, lookupVars, runVars, notified, everPosted>>

\* mark_call_processing, first statement: the SELECT (which may raise a
\* storage error) and the branch on it.
ClaimSelect(d) ==
    /\ pc[d] = "claim_select"
    /\ \E fault \in BOOLEAN :
        LET dec == ClaimDecision(store[call[d]], now) IN
        IF fault
        THEN /\ Respond(d, "store_fault")
             /\ UNCHANGED plan
        ELSE IF dec \in {"insert", "update"}
        THEN /\ plan' = [plan EXCEPT ![d] = dec]
             /\ pc' = [pc EXCEPT ![d] = "claim_write"]
             /\ UNCHANGED result
        ELSE /\ Respond(d, dec)
             /\ UNCHANGED plan
    /\ UNCHANGED <<now, store, MAX_CONCURRENT_CALLS, free, call, payload, redelivery, arrived, lookupVars, runVars, notified, everPosted>>

\* A table whose INSERT never fails on an existing call_id.
NoPrimaryKey(row) == FALSE

\* call_id TEXT PRIMARY KEY: a plain INSERT fails with IntegrityError when a
\* row with this call_id exists.
PrimaryKeyTaken(row) == row # NoRecord

\* mark_call_processing, second statement: the INSERT (IntegrityError when a
\* row with this primary key exists by now) or the UPDATE ... WHERE
\* call_id = ?, then return True and add_task.  An exception of the write,
\* the IntegrityError or another storage error, becomes HTTPException(500).
ClaimWrite(d) ==
    /\ pc[d] = "claim_write"
    /\ \E fault \in BOOLEAN :
        LET c == call[d] IN
        IF fault
        THEN /\ Respond(d, "store_fault")
             /\ UNCHANGED store
        ELSE IF plan[d] = "insert" /\ PrimaryKeyTaken(store[c])
        THEN /\ Respond(d, "integrity_error")
             /\ UNCHANGED store
        ELSE /\ store' = [store EXCEPT ![c] =
                    IF plan[d] = "insert" THEN ClaimedRow(now)
                    ELSE IF store[c] = NoRecord THEN NoRecord
                    ELSE RetriedRow(store[c], now)]
             /\ pc' = [pc EXCEPT ![d] = "queued"]
             /\ result' = [result EXCEPT ![d] = "Claimed"]
    /\ plan' = [plan EXCEPT ![d] = "none"]
    /\ UNCHANGED <<now, MAX_CONCURRENT_CALLS, free, call, payload, redelivery, arrived, lookupVars, runVars, notified, everPosted>>

\* ------------------------------------------- process_call_with_rate_limit
\* The stages before summarization.  A failed download or transcription is
\* caught and leaves an error text in transcription; any other exception
\* goes to the outer except.
StageOutcomes == {"transcript", "Error in transcription", "raise"}

\* threading.Semaphore.acquire() returns only while the value is positive.
SlotFreeAlways == TRUE

SlotFree == free > 0

\* processing_semaphore.acquire() (blocks while the value is 0), then
\* download_recording and transcribe_audio.  summarize: the call is Normal
\* and mom_generator is configured; generate_mom is called only for a
\* transcription without "Error" in it.
Acquire(d) ==
    /\ pc[d] = "queued"
    /\ SlotFree
    /\ free' = free - 1
    /\ \E o \in StageOutcomes, summarize \in BOOLEAN :
        IF o = "raise"
        THEN /\ pc' = [pc EXCEPT ![d] = "except"]
             /\ UNCHANGED transcription
        ELSE /\ pc' = [pc EXCEPT ![d] =
                    IF summarize /\ o = "transcript" THEN "summarize"
                    ELSE "final_check"]
             /\ transcription' = [transcription EXCEPT ![d] = o]
    /\ UNCHANGED <<now, store, MAX_CONCURRENT_CALLS, call, payload, redelivery, arrived, lookupVars, plan, result, success, mom, errors,
                   commits, ending, notified, everPosted>>

\* ---------------------------------------------------------- generate_mom
\* max_retries = 3
MaxRetries == 3

\* What one attempt of generate_mom ends in: a summary, a response whose
\* content is blank, HTTP 429, HTTP 401, or another failure (another HTTP
\* error, a network exception, a malformed response: their except clauses do
\* the same).
MomOutcomes == {"ok", "ok_blank", "429", "401", "other_error"}

\* result['choices'][0]['message']['content'].strip(), returned as it is.
Content(o) == IF o = "ok" THEN "summary" ELSE ""

\* A loop that retries only after HTTP 429.
RetriesOnlyRateLimit(o, attempt) ==
    o = "429" /\ attempt < MaxRetries - 1

\* The except clauses of the loop, for the failure o of attempt number
\* attempt (from 0): TRUE when the loop goes on to a further attempt
\* (continue), FALSE when it ends (break, or the last attempt).
Retries(o, attempt) ==
    IF o = "401" THEN FALSE
    ELSE attempt < MaxRetries - 1

\* A summarization whose exhausted attempts raise into the run.
SummarizeAborts(d) ==
    /\ pc[d] = "summarize"
    /\ \E o \in MomOutcomes :
        IF o \in {"ok", "ok_blank"}
        THEN /\ mom' = [mom EXCEPT ![d] = Content(o)]
             /\ errors' = [errors EXCEPT ![d] = <<>>]
             /\ pc' = [pc EXCEPT ![d] = "final_check"]
        ELSE IF Retries(o, Len(errors[d]))
        THEN /\ errors' = [errors EXCEPT ![d] = Append(@, o)]
             /\ UNCHANGED <<mom, pc>>
        ELSE /\ errors' = [errors EXCEPT ![d] = Append(@, o)]
             /\ pc' = [pc EXCEPT ![d] = "except"]
             /\ UNCHANGED mom
    /\ UNCHANGED <<now, store, MAX_CONCURRENT_CALLS, free, call, payload, redelivery, arrived, lookupVars, plan, result, transcription,
                   success, commits, ending, notified, everPosted>>

\* One attempt of generate_mom.  When the loop ends without a summary the
\* function returns fallback_mom; it raises nothing.
Summarize(d) ==
    /\ pc[d] = "summarize"
    /\ \E o \in MomOutcomes :
        IF o \in {"ok", "ok_blank"}
        THEN /\ mom' = [mom EXCEPT ![d] = Content(o)]
             /\ errors' = [errors EXCEPT ![d] = <<>>]
             /\ pc' = [pc EXCEPT ![d] = "final_check"]
        ELSE IF Retries(o, Len(errors[d]))
        THEN /\ errors' = [errors EXCEPT ![d] = Append(@, o)]
             /\ UNCHANGED <<mom, pc>>
        ELSE /\ mom' = [mom EXCEPT ![d] = "fallback"]
             /\ errors' = [errors EXCEPT ![d] = Append(@, o)]
             /\ pc' = [pc EXCEPT ![d] = "final_check"]
    /\ UNCHANGED <<now, store, MAX_CONCURRENT_CALLS, free, call, payload, redelivery, arrived, lookupVars, plan, result, transcription,
                   success, commits, ending, notified, everPosted>>

\* ---------------------------------------------- final check, notify, commit
\* format_message (may raise) and post_to_slack (returns True or False).
NotifyOutcomes == {"posted", "not_posted", "raise"}

\* Layer 3: if db_manager.is_call_processed(call_id): return (the store may
\* raise instead of answering); otherwise format and post to Slack.
FinalCheckNotify(d) ==
    /\ pc[d] = "final_check"
    /\ \E fault \in BOOLEAN, o \in NotifyOutcomes :
        IF fault
        THEN /\ pc' = [pc EXCEPT ![d] = "except"]
             /\ transcription' = [transcription EXCEPT ![d] = ""]
             /\ UNCHANGED <<ending, success, notified>>
        ELSE IF is_call_processed(call[d])
        THEN /\ pc' = [pc EXCEPT ![d] = "finally"]
             /\ ending' = [ending EXCEPT ![d] = "aborted"]
             /\ transcription' = [transcription EXCEPT ![d] = ""]
             /\ UNCHANGED <<success, notified>>
        ELSE /\ pc' = [pc EXCEPT ![d] = IF o = "raise" THEN "except" ELSE "commit"]
             /\ success' = [success EXCEPT ![d] = (o = "posted")]
             /\ notified' = [notified EXCEPT ![call[d]] =
                                IF o = "posted" THEN @ + 1 ELSE @]
             /\ transcription' = [transcription EXCEPT ![d] =
                                IF o = "raise" THEN "" ELSE @]
             /\ UNCHANGED ending
    /\ mom' = [mom EXCEPT ![d] = ""]
    /\ errors' = [errors EXCEPT ![d] = <<>>]
    /\ UNCHANGED <<now, store, MAX_CONCURRENT_CALLS, free, call, payload, redelivery, arrived, lookupVars, plan, result, commits, everPosted>>

\* mark_call_processed(call_data, txt, ok) executed by run d.
MarkCallProcessed(d, txt, ok) ==
    /\ store' = [store EXCEPT ![call[d]] = CommittedRow(txt, ok, now)]
    /\ commits' = [commits EXCEPT ![d] = @ + 1]
    /\ everPosted' = [everPosted EXCEPT ![call[d]] = @ \/ ok]

\* db_manager.mark_call_processed(call_data, transcription, success), then
\* the pacing sleep; a store error raises into the except clause.
Commit(d) ==
    /\ pc[d] = "commit"
    /\ \E fault \in BOOLEAN :
        IF fault
        THEN /\ pc' = [pc EXCEPT ![d] = "except"]
             /\ UNCHANGED <<store, commits, everPosted, ending, success>>
        ELSE /\ MarkCallProcessed(d, transcription[d], success[d])
             /\ pc' = [pc EXCEPT ![d] = "finally"]
             /\ ending' = [ending EXCEPT ![d] = "committed"]
             /\ success' = [success EXCEPT ![d] = FALSE]
    /\ transcription' = [transcription EXCEPT ![d] = ""]
    /\ UNCHANGED <<now, MAX_CONCURRENT_CALLS, free, call, payload, redelivery, arrived, lookupVars, plan, result, mom, errors, notified>>

\* An exception handler without a finally clause behind it: when its own
\* commit fails the run is over with its slot still taken.
ExceptEscapes(d) ==
    /\ pc[d] = "except"
    /\ \E fault \in BOOLEAN :
        IF fault
        THEN /\ ending' = [ending EXCEPT ![d] = "escaped"]
             /\ pc' = [pc EXCEPT ![d] = "done"]
             /\ UNCHANGED <<store, commits, everPosted>>
        ELSE /\ MarkCallProcessed(d, "Error: exception", FALSE)
             /\ ending' = [ending EXCEPT ![d] = "handled"]
             /\ pc' = [pc EXCEPT ![d] = "finally"]
    /\ success' = [success EXCEPT ![d] = FALSE]
    /\ UNCHANGED <<now, MAX_CONCURRENT_CALLS, free, call, payload, redelivery, arrived, lookupVars, plan, result,
                   transcription, mom, errors, notified>>

\* except Exception: mark_call_processed(call_data, f"Error: {e}", False),
\* whatever post_to_slack returned before the exception.  A store error here
\* leaves the function through finally.
Except(d) ==
    /\ pc[d] = "except"
    /\ \E fault \in BOOLEAN :
        IF fault
        THEN /\ ending' = [ending EXCEPT ![d] = "escaped"]
             /\ UNCHANGED <<store, commits, everPosted>>
        ELSE /\ MarkCallProcessed(d, "Error: exception", FALSE)
             /\ ending' = [ending EXCEPT ![d] = "handled"]
    /\ pc' = [pc EXCEPT ![d] = "finally"]
    /\ success' = [success EXCEPT ![d] = FALSE]
    /\ UNCHANGED <<now, MAX_CONCURRENT_CALLS, free, call, payload, redelivery, arrived, lookupVars, plan, result, transcription, mom,
                   errors, notified>>

\* A run that leaves without giving its slot back.
ReleaseLeak(d) ==
    /\ pc[d] = "finally"
    /\ pc' = [pc EXCEPT ![d] = "done"]
    /\ UNCHANGED <<now, store, MAX_CONCURRENT_CALLS, free, call, payload, redelivery, arrived, lookupVars, plan, result,
                   runVars, notified, everPosted>>

\* finally: processing_semaphore.release().
Release(d) ==
    /\ pc[d] = "finally"
    /\ free' = free + 1
    /\ pc' = [pc EXCEPT ![d] = "done"]
    /\ UNCHANGED <<now, store, MAX_CONCURRENT_CALLS, call, payload, redelivery, arrived, lookupVars, plan, result, runVars, notified, everPosted>>

\* ------------------------------------------------------------ maintenance
\* emergency_cleanup_old_records, run by startup_event of a server process:
\* DELETE ... WHERE processed_at < two_hours_ago AND slack_posted = 0.
EmergencyCleanedRow(row, t) ==
    IF row # NoRecord /\ row.processed_at < t - EmergencyWindow /\ ~row.posted
    THEN NoRecord ELSE row

EmergencyCleanup ==
    /\ store' = [c \in CallIds |-> EmergencyCleanedRow(store[c], now)]
    /\ store' # store
    /\ UNCHANGED <<now, MAX_CONCURRENT_CALLS, free, pc, call, payload, redelivery, arrived, lookupVars, plan, result, runVars, notified, everPosted>>

\* cleanup_database option 1: UPDATE SET status = 'failed', processed_at = now
\* WHERE status = 'processing' AND processed_at < one_hour_ago.
Option1Row(row, t) ==
    IF row # NoRecord /\ row.status = "processing"
       /\ row.processed_at < t - CleanupWindow
    THEN [row EXCEPT !.status = "failed", !.processed_at = t] ELSE row

CleanupOption1 ==
    /\ store' = [c \in CallIds |-> Option1Row(store[c], now)]
    /\ store' # store
    /\ UNCHANGED <<now, MAX_CONCURRENT_CALLS, free, pc, call, payload, redelivery, arrived, lookupVars, plan, result, runVars, notified, everPosted>>

\* cleanup_database option 2: DELETE WHERE slack_posted = 0 AND
\* status != 'processing'.
Option2Row(row) ==
    IF row # NoRecord /\ ~row.posted /\ row.status # "processing"
    THEN NoRecord ELSE row

CleanupOption2 ==
    /\ store' = [c \in CallIds |-> Option2Row(store[c])]
    /\ store' # store
    /\ UNCHANGED <<now, MAX_CONCURRENT_CALLS, free, pc, call, payload, redelivery, arrived, lookupVars, plan, result, runVars, notified, everPosted>>

\* cleanup_database option 3: UPDATE SET status = 'failed', processed_at = now
\* WHERE slack_posted = 0, executed with a str in the place of the parameter
\* tuple: sqlite3 raises (one placeholder, one binding per character) and
\* the except clause rolls back, so no row changes.
Option3Row(row, t) == row

\* ------------------------------------------------------------------- time
Tick ==
    /\ now < MaxTime
    /\ now' = now + 1
    /\ UNCHANGED <<store, MAX_CONCURRENT_CALLS, free, pc, call, payload, redelivery, arrived, lookupVars, plan, result, runVars, notified, everPosted>>

\* ------------------------------------------------------------------- Next
Next ==
    \/ \E d \in Deliveries : Webhook(d)
    \/ \E d \in Deliveries : ClaimSelect(d)
    \/ \E d \in Deliveries : ClaimWrite(d)
    \/ \E d \in Deliveries : Acquire(d)
    \/ \E d \in Deliveries : Summarize(d)
    \/ \E d \in Deliveries : FinalCheckNotify(d)
    \/ \E d \in Deliveries : Commit(d)
    \/ \E d \in Deliveries : Except(d)
    \/ \E d \in Deliveries : Release(d)
    \/ EmergencyCleanup
    \/ CleanupOption1
    \/ CleanupOption2
    \/ Tick

Spec == Init /\ [][Next]_vars

\* Every step of a run returns: the collaborator calls have timeouts, the
\* store answers or raises, and a thread blocked in acquire() is woken when
\* a slot is free.
RunFairness ==
    \A d \in Deliveries :
        /\ WF_vars(Acquire(d))
        /\ WF_vars(Summarize(d))
        /\ WF_vars(FinalCheckNotify(d))
        /\ WF_vars(Commit(d))
        /\ WF_vars(Except(d))
        /\ WF_vars(Release(d))

\* The configuration in which runs have to wait for each other: a single
\* admission slot (MAX_CONCURRENT_CALLS=1).
LiveInit ==
    /\ Init
    /\ MAX_CONCURRENT_CALLS = 1

LiveSpec == LiveInit /\ [][Next]_vars /\ RunFairness

\* ------------------------------------------------------- customer lookup
\* The phone numbers of the customers; 0 stands for an argument
\* lookup_customer cannot normalise (None).
Phones == 1..MaxPhones

Arguments == 0..MaxPhones

\* cache_refresh_interval = timedelta(minutes=30): the unit of clock.
cache_refresh_interval == 1

\* A cache that counts as expired as soon as it is one interval old.
CacheExpiredInclusive(last, t) == last # NoRefresh /\ t - last >= cache_refresh_interval

\* cache_expired: last_cache_refresh is set and
\* utcnow() - last_cache_refresh > cache_refresh_interval.
CacheExpired(last, t) == last # NoRefresh /\ t - last > cache_refresh_interval

\* load_customer_cache returns True (the sheet was read and the cache
\* rebuilt) or False (opening the spreadsheet or reading its records raised,
\* before the cache is touched).
LoadOutcomes == {"loaded", "load_failed"}

\* The matches of lookup_customer, on the keys of the cache.
Found(p, keys) == IF p \in keys THEN "found" ELSE "not_found"

mainVars ==
    <<now, store, MAX_CONCURRENT_CALLS, free, pc, call, payload, redelivery, arrived, plan, result,
      transcription, success, mom, errors, commits, ending, notified, everPosted>>

\* lookup_customer(p): without a client it returns None; it reloads the
\* cache when it was never loaded or has expired and returns None when the
\* reload fails; an exception in the lookup is caught and None returned.
LookupCustomer(p) ==
    /\ calls < MaxLookups
    /\ calls' = calls + 1
    /\ IF ~client
       THEN /\ answer' = [phone |-> p, result |-> "not_found"]
            /\ UNCHANGED <<cache, cache_loaded, last_cache_refresh>>
       ELSE IF ~cache_loaded \/ CacheExpired(last_cache_refresh, clock)
       THEN \E o \in LoadOutcomes :
              IF o = "loaded"
              THEN /\ cache' = sheet
                   /\ cache_loaded' = TRUE
                   /\ last_cache_refresh' = clock
                   /\ answer' = [phone |-> p, result |-> Found(p, sheet)]
              ELSE /\ answer' = [phone |-> p, result |-> "not_found"]
                   /\ UNCHANGED <<cache, cache_loaded, last_cache_refresh>>
       ELSE /\ answer' = [phone |-> p, result |-> Found(p, cache)]
            /\ UNCHANGED <<cache, cache_loaded, last_cache_refresh>>
    /\ UNCHANGED <<client, sheet, clock, mainVars>>

\* The customer sheet is edited by its owners.
EditSheet ==
    /\ \E keys \in SUBSET Phones : sheet' = keys /\ keys # sheet
    /\ UNCHANGED <<client, cache, cache_loaded, last_cache_refresh, clock, calls, answer,
                   mainVars>>

LookupTick ==
    /\ clock < MaxClock
    /\ clock' = clock + 1
    /\ UNCHANGED <<client, sheet, cache, cache_loaded, last_cache_refresh, calls, answer,
                   mainVars>>

\* The lookup service on its own: constructed with or without credentials,
\* in a process that has received no delivery.
LookupInit ==
    /\ client \in BOOLEAN
    /\ sheet \in SUBSET Phones
    /\ LookupConstructed
    /\ now = 0
    /\ store = [c \in CallIds |-> NoRecord]
    /\ MAX_CONCURRENT_CALLS = 1
    /\ free = 1
    /\ pc = [d \in Deliveries |-> "new"]
    /\ call = [d \in Deliveries |-> 0]
    /\ payload = [d \in Deliveries |-> NoPayload]
    /\ redelivery = [d \in Deliveries |-> FALSE]
    /\ arrived = [d \in Deliveries |-> 0]
    /\ plan = [d \in Deliveries |-> "none"]
    /\ result = [d \in Deliveries |-> "none"]
    /\ transcription = [d \in Deliveries |-> ""]
    /\ success = [d \in Deliveries |-> FALSE]
    /\ mom = [d \in Deliveries |-> ""]
    /\ errors = [d \in Deliveries |-> <<>>]
    /\ commits = [d \in Deliveries |-> 0]
    /\ ending = [d \in Deliveries |-> "none"]
    /\ notified = [c \in CallIds |-> 0]
    /\ everPosted = [c \in CallIds |-> FALSE]

LookupNext ==
    \/ \E p \in Arguments : LookupCustomer(p)
    \/ EditSheet
    \/ LookupTick

LookupSpec == LookupInit /\ [][LookupNext]_vars

\* ----------------------------------------------------------- observations
\* Run d holds an admission slot: acquire has returned, release has not run.
Holding(d) == pc[d] \in {"summarize", "final_check", "commit", "except", "finally"}

Holders == {d \in Deliveries : Holding(d)}

\* Delivery d has claimed its call and its run has not yet reached the end
\* of its commit stage.
ClaimHeld(d) == pc[d] \in {"queued", "summarize", "final_check", "commit", "except"}

\* The handler of d has answered and, if it scheduled a run, the run is over.
Finished(d) == pc[d] \in {"responded", "done"}

\* Delivery d is inside mark_call_processing.
InTryClaim(d) == pc[d] \in {"claim_select", "claim_write"}

\* Delivery d leaves its current position in this step.
Moves(d) == pc'[d] # pc[d]

\* Age in hours of a row at time t (now - processed_at).
Age(row, t) == t - row.processed_at

\* A row of a run that ended without posting: slack_posted = 0 and a status
\* other than 'processing'.
FailedRow(row) == row # NoRecord /\ ~row.posted /\ row.status # "processing"

\* ----------------------------------------------------------------- claims

\* C1: the check and the write of try_claim are one atomic step: whenever a
\* try_claim returns Claimed, the store is at the moment of its write in a
\* claimable state (no record, or an unposted failed record past the
\* staleness window), so that of several overlapping calls on one call_id
\* exactly one is Claimed.
C1_ClaimIsAtomic ==
    [][\A d \in Deliveries :
          (pc[d] = "claim_write" /\ result'[d] = "Claimed")
             => ClaimDecision(store[call[d]], now) \in {"insert", "update"}]_vars

\* C2: for every call_id at most one notification is ever delivered to Slack.
C2_AtMostOneNotification ==
    \A c \in CallIds : notified[c] <= 1

\* C3: once a commit with posted = true has been executed for a call_id,
\* try_claim decides Blocked(already_posted) for it in every later state.
C3_PermanentBlock ==
    \A c \in CallIds :
        everPosted[c] => ClaimDecision(store[c], now) = "already_posted"

\* C4: once a record has posted = true, no step of the system removes it or
\* changes its posted flag or its phase.
C4_PostedIsImmutable ==
    [][\A c \in CallIds :
          (store[c] # NoRecord /\ store[c].posted)
             => /\ store'[c] # NoRecord
                /\ store'[c].posted
                /\ store'[c].status = store[c].status]_vars

\* C5: at any instant at most one run per call_id is between its successful
\* claim and its terminal commit.
C5_OneClaimPerCall ==
    \A d1, d2 \in Deliveries :
        (d1 # d2 /\ ClaimHeld(d1) /\ ClaimHeld(d2)) => call[d1] # call[d2]

\* C6: no claimed record stays in phase processing: once every delivery of a
\* call_id has been answered and every run of it is over, none of them having
\* left through a store error in the except clause, the record of the call_id
\* is in a terminal phase.
C6_ClaimReachesTerminal ==
    \A c \in CallIds :
        (\A d \in Deliveries :
            call[d] = c => (Finished(d) /\ ending[d] # "escaped"))
        => (store[c] = NoRecord \/ store[c].status # "processing")

\* C7: every run executes exactly one commit: never two, and a run that is
\* over without having been aborted by the final duplicate re-check has
\* executed one.
C7_ExactlyOneCommit ==
    \A d \in Deliveries :
        /\ commits[d] <= 1
        /\ (pc[d] = "done" /\ ending[d] # "aborted") => commits[d] = 1

\* C8: the number of runs holding an acquired admission slot never exceeds
\* MAX_CONCURRENT_CALLS.
C8_AdmissionBound ==
    Cardinality(Holders) <= MAX_CONCURRENT_CALLS

\* All slots are taken and a further run waits in acquire.
C8_Witness ==
    /\ Cardinality(Holders) = MAX_CONCURRENT_CALLS
    /\ \E d \in Deliveries : pc[d] = "queued"

\* C9: every acquired slot is released exactly once on every exit path: the
\* free slots and the slots held by runs that have not yet passed finally
\* always add up to MAX_CONCURRENT_CALLS, so no slot leaks and the free
\* slots never exceed MAX_CONCURRENT_CALLS.
C9_SlotsPaired ==
    /\ free + Cardinality(Holders) = MAX_CONCURRENT_CALLS
    /\ free <= MAX_CONCURRENT_CALLS

\* A run whose except clause itself failed at the store is over and every
\* slot is free again.
C9_Witness ==
    /\ free = MAX_CONCURRENT_CALLS
    /\ \E d \in Deliveries : pc[d] = "done" /\ ending[d] = "escaped"

\* C10: every record with posted = true has phase completed.
C10_PostedImpliesCompleted ==
    \A c \in CallIds :
        (store[c] # NoRecord /\ store[c].posted) => store[c].status = "completed"

\* C11: a record committed with posted = false less than the staleness
\* window ago is not re-claimed: every try_claim that acts on it returns
\* Blocked(recent_failure) (or ends in an error of the store) and leaves the
\* store unchanged; none returns Claimed.
C11_RecentFailureBlocks ==
    [][\A d \in Deliveries :
          (InTryClaim(d) /\ Moves(d) /\ FailedRow(store[call[d]])
             /\ Age(store[call[d]], now) < StalenessWindow)
          => /\ result'[d] \in {"recent_failure", "store_fault", "integrity_error"}
             /\ store' = store]_vars

\* Delivery d runs the SELECT of mark_call_processing in this step and the
\* store answers.
Reads(d) == pc[d] = "claim_select" /\ Moves(d) /\ result'[d] # "store_fault"

\* C12 (as stated): a try_claim that reads a record committed with
\* posted = false at or after the end of the staleness window, the exact end
\* included, takes the retry branch.
C12_ReclaimAtWindow ==
    [][\A d \in Deliveries :
          (Reads(d) /\ FailedRow(store[call[d]])
             /\ Age(store[call[d]], now) >= StalenessWindow)
          => plan'[d] = "update"]_vars

\* C12 (amended): a record committed with posted = false is re-claimed only
\* strictly after the staleness window.  A try_claim that reads it when
\* exactly the window (or less) has passed returns Blocked(recent_failure)
\* and changes nothing; one that reads it later takes the retry branch, and
\* the write of the retry branch returns Claimed and sets, on the record it
\* finds, phase = processing and claimed_at = now.
C12_ReclaimAfterWindow ==
    [][\A d \in Deliveries :
          /\ (Reads(d) /\ FailedRow(store[call[d]]))
             => IF Age(store[call[d]], now) > StalenessWindow
                THEN plan'[d] = "update" /\ pc'[d] = "claim_write"
                ELSE result'[d] = "recent_failure" /\ store' = store
          /\ (pc[d] = "claim_write" /\ plan[d] = "update" /\ Moves(d)
                /\ result'[d] # "store_fault" /\ store[call[d]] # NoRecord)
             => /\ result'[d] = "Claimed"
                /\ store'[call[d]].status = "processing"
                /\ store'[call[d]].processed_at = now]_vars

\* A delivery was blocked as a recent failure on a record that failed
\* exactly one staleness window ago.
C12_Witness ==
    \E d \in Deliveries :
        /\ pc[d] = "responded" /\ result[d] = "recent_failure"
        /\ FailedRow(store[call[d]])
        /\ Age(store[call[d]], now) = StalenessWindow

\* An unposted row in status 'processing'.
ProcessingRow(row) == row # NoRecord /\ ~row.posted /\ row.status = "processing"

\* C13 (as stated): a try_claim that reads a record in phase processing whose
\* claim is older than the staleness window re-claims it.
C13_StaleProcessingReclaimed ==
    [][\A d \in Deliveries :
          (Reads(d) /\ ProcessingRow(store[call[d]])
             /\ Age(store[call[d]], now) > StalenessWindow)
          => plan'[d] = "update"]_vars

\* C13 (amended): the online try_claim never re-claims a record it reads in
\* phase processing, however old its claim: it returns Blocked (already
\* processing) and leaves the store unchanged.
C13_ProcessingAlwaysBlocks ==
    [][\A d \in Deliveries :
          (Reads(d) /\ ProcessingRow(store[call[d]]))
          => /\ result'[d] = "in_flight"
             /\ pc'[d] = "responded"
             /\ store' = store]_vars

\* A delivery was blocked on a record in phase processing whose claim is
\* older than the staleness window.
C13_Witness ==
    \E d \in Deliveries :
        /\ pc[d] = "responded" /\ result[d] = "in_flight"
        /\ ProcessingRow(store[call[d]])
        /\ Age(store[call[d]], now) > StalenessWindow

\* C14: a delivery that fails structural validation is answered with HTTP
\* 422, has written nothing and has scheduled no run.
C14_InvalidIs422 ==
    \A d \in Deliveries :
        result[d] = "validation_error"
        => HttpStatus(result[d]) = 422 /\ pc[d] = "responded"

\* The responses of the handler that reject a delivery: already posted,
\* event too old or in the future, unauthorized numbers, category or
\* department skip, inbound skip, claim blocked.
Rejections ==
    {"duplicate_layer1", "time_window", "unauthorized", "category_skip",
     "skipped_inbound", "already_posted", "in_flight", "recent_failure"}

Scheduled(d) ==
    pc[d] \in {"queued", "summarize", "final_check", "commit", "except", "finally",
              "done"}

\* C16: a run is scheduled for a delivery if and only if its try_claim
\* returned Claimed; the admitted delivery has its response while the run
\* has not started, and a delivery answered otherwise has no run.
C16_RunIffClaimed ==
    \A d \in Deliveries :
        /\ Scheduled(d) <=> result[d] = "Claimed"
        /\ pc[d] = "responded" => result[d] \notin {"Claimed", "none"}

\* An admitted delivery has been answered while its run has not started, and
\* another delivery of the same call was blocked and has no run.
C16_Witness ==
    \E d1, d2 \in Deliveries :
        /\ pc[d1] = "queued" /\ result[d1] = "Claimed"
        /\ pc[d2] = "responded" /\ result[d2] = "in_flight"
        /\ call[d1] = call[d2]

\* C17: the duplicate pre-check comes right after structural validation: a
\* valid delivery for a call_id that is posted when the handler runs gets the
\* duplicate response, whatever its direction, duration, age, authorization
\* or category (unless the store raises).
C17_DuplicateCheckFirst ==
    [][\A d \in Deliveries :
          (pc[d] = "new" /\ Moves(d) /\ is_call_processed(call'[d])
             /\ result'[d] \notin {"validation_error", "store_fault"})
          => result'[d] = "duplicate_layer1"]_vars

\* C18: a delivery is answered 500 inside the claim only when a store
\* operation failed; a delivery that loses a claim race is not answered 500.
\* A delivery answered 500 has no run and has written nothing.
C18_FaultOnlyOnStoreFailure ==
    [][\A d \in Deliveries :
          (InTryClaim(d) /\ Moves(d) /\ HttpStatus(result'[d]) = 500)
          => /\ result'[d] = "store_fault"
             /\ pc'[d] = "responded"
             /\ store' = store]_vars

\* C19: a run in which an exception was raised has executed a commit with
\* phase = failed and posted = false when it leaves the pipeline; no
\* exception leaves the pipeline without a store write.
C19_ExceptionsAreCommitted ==
    \A d \in Deliveries :
        (pc[d] \in {"finally", "done"} /\ ending[d] \in {"handled", "escaped"})
        => commits[d] >= 1 /\ ending[d] = "handled"

\* A step of the online system: a webhook handler, a pipeline run, or the
\* startup of a server process.
OnlineStep ==
    \/ EmergencyCleanup
    \/ \E d \in Deliveries :
          \/ Webhook(d) \/ ClaimSelect(d) \/ ClaimWrite(d) \/ Acquire(d)
          \/ Summarize(d)
          \/ FinalCheckNotify(d) \/ Commit(d) \/ Except(d) \/ Release(d)

\* C20: no step of the online system removes a record from the store.
C20_OnlineNeverDeletes ==
    [][OnlineStep
         => \A c \in CallIds : store[c] # NoRecord => store'[c] # NoRecord]_vars

\* C21: after a commit with posted = true for a call_id, the store holds its
\* record and a re-delivery (a valid payload that is not a short inbound
\* call, the store answering) gets the duplicate response of the pre-check,
\* so it starts no run.
C21_RedeliveryIsDuplicate ==
    \A c \in CallIds :
        everPosted[c]
        => /\ store[c] # NoRecord
           /\ \A g \in GateInputs :
                (Valid(g) /\ ~g.inbound_short /\ ~g.layer1_raises)
                => GateResult(g, is_call_processed(c)) = "duplicate_layer1"

\* C22: of two near-simultaneous deliveries of a call_id without a record
\* (both found none), only one INSERT succeeds: while the record of the
\* first exists, the write of the other fails, so the other delivery is not
\* claimed, has no run (hence sends no notification) and changes nothing.
C22_OneInsertWins ==
    [][\A d \in Deliveries :
          (pc[d] = "claim_write" /\ plan[d] = "insert" /\ Moves(d)
             /\ store[call[d]] # NoRecord)
          => /\ result'[d] \in {"integrity_error", "store_fault"}
             /\ pc'[d] = "responded"
             /\ store' = store]_vars

\* Of two deliveries of a call without a record one was claimed and runs, the
\* other lost the INSERT and has no run.
C22_Witness ==
    \E d1, d2 \in Deliveries :
        /\ call[d1] = call[d2]
        /\ result[d1] = "Claimed" /\ Scheduled(d1)
        /\ result[d2] = "integrity_error" /\ pc[d2] = "responded"
        /\ notified[call[d1]] <= 1

\* Run d executes a mark_call_processed write in this step.
Commits(d) == commits'[d] > commits[d]

C24_SummarizationNeverAborts ==
    [][/\ \A d \in Deliveries :
            /\ (pc[d] = "summarize" /\ Moves(d))
               => /\ pc'[d] = "final_check"
                  /\ transcription'[d] = transcription[d]
                  /\ transcription[d] # ""
            /\ (pc[d] = "summarize" /\ errors'[d] = <<"429", "429", "429">>)
               => pc'[d] = "final_check" /\ mom'[d] = "fallback"
       /\ \A c \in CallIds : store'[c] # NoRecord => store'[c].text # ""]_vars

\* A run stands before the notification with the fallback summary after
\* three rate-limit failures.
C24_Witness ==
    \E d \in Deliveries :
        /\ pc[d] = "final_check"
        /\ errors[d] = <<"429", "429", "429">>
        /\ mom[d] = "fallback"
        /\ transcription[d] = "transcript"

\* The responses whose message contains "duplicate": "Duplicate call -
\* already posted to Slack (layer 1)" and "Duplicate call - already
\* processing (layer 2)".
DuplicateMessage(r) ==
    r \in {"duplicate_layer1", "already_posted", "in_flight", "recent_failure"}

\* The record blocks a new claim: it is posted, processing, or failed less
\* than the staleness window ago.
Blocking(row, t) ==
    /\ row # NoRecord
    /\ (row.posted \/ row.status = "processing" \/ Age(row, t) < StalenessWindow)

\* The responses a repetition of an admitted event cannot get while the
\* store answers: the payload, call type, age, agent and category filters
\* passed for the first delivery.
OtherEvent ==
    {"validation_error", "skipped_inbound", "time_window", "not_configured",
     "unauthorized", "category_skip", "store_fault"}

\* The step answers delivery d.
Answers(d) ==
    /\ pc[d] \in {"new", "claim_select", "claim_write"}
    /\ pc'[d] \in {"responded", "queued"}

\* C25: a delivery that arrived after a delivery of its call_id was
\* admitted, and is answered while the record of the call is processing,
\* posted or recently failed, gets HTTP 200 with a message that contains
\* "duplicate".
C25_RedeliveryAnsweredDuplicate ==
    [][\A d \in Deliveries :
          (/\ Answers(d)
           /\ redelivery'[d]
           /\ result'[d] \notin OtherEvent
           /\ Blocking(store[call'[d]], now))
          => /\ HttpStatus(result'[d]) = 200
             /\ DuplicateMessage(result'[d])]_vars

\* C26: a delivery whose body carries the call identifier and the two
\* numbers is not rejected by the payload validation, whether or not it
\* carries a direction.
C26_DirectionOptional ==
    \A d \in Deliveries :
        (pc[d] # "new" /\ payload[d].has_ids) => result[d] # "validation_error"

\* The results with which try_claim returns Blocked.
Blocked == {"already_posted", "in_flight", "recent_failure"}

\* C27: a try_claim that finds a record in phase processing returns
\* Blocked(in_flight) whatever the age of the record, and every try_claim
\* that returns Blocked leaves every field of every record unchanged.
C27_BlockedChangesNothing ==
    [][\A d \in Deliveries :
          /\ \A a \in 0..(MaxTime + OldAge) :
                (Reads(d) /\ ProcessingRow(store[call[d]])
                   /\ Age(store[call[d]], now) = a)
                => result'[d] = "in_flight"
          /\ (InTryClaim(d) /\ Moves(d) /\ result'[d] \in Blocked)
             => /\ pc[d] = "claim_select"
                /\ \A c \in CallIds : store'[c] = store[c]]_vars

\* A delivery that arrived when the record of its call was in phase
\* processing for longer than the staleness window was blocked, and the
\* record still carries the time of its claim.
C27_Witness ==
    \E d \in Deliveries :
        /\ pc[d] = "responded" /\ result[d] = "in_flight" /\ commits[d] = 0
        /\ store[call[d]] # NoRecord
        /\ store[call[d]].status = "processing"
        /\ store[call[d]].processed_at + StalenessWindow < arrived[d]

\* C28: when the final re-check finds the call_id posted, the run sends no
\* notification and commits nothing: the record is left as it is.
C28_FinalCheckAborts ==
    [][\A d \in Deliveries :
          (/\ pc[d] = "final_check" /\ Moves(d)
           /\ pc'[d] # "except"
           /\ store[call[d]] # NoRecord /\ store[call[d]].posted)
          => /\ pc'[d] = "finally"
             /\ ending'[d] = "aborted"
             /\ notified' = notified
             /\ commits' = commits
             /\ store' = store]_vars

\* A run ended at the final re-check because another run of the same
\* call_id had committed the record as posted.
C28_Witness ==
    \E d, e \in Deliveries :
        /\ d # e /\ call[d] = call[e]
        /\ ending[d] = "aborted" /\ commits[d] = 0
        /\ ending[e] = "committed"
        /\ store[call[d]] # NoRecord /\ store[call[d]].posted

\* C29: every commit of a run writes as posted flag the result of the run's
\* notify step, and a failed fetch or transcription still leads the run to
\* the final check and the notification.
C29_CommitRecordsNotifyResult ==
    [][\A d \in Deliveries :
          /\ Commits(d) => store'[call[d]].posted = success[d]
          /\ (pc[d] = "queued" /\ Moves(d)
                 /\ transcription'[d] = "Error in transcription")
             => pc'[d] = "final_check"]_vars

\* The step is a failed attempt of the summarization of run d.
AttemptFails(d) ==
    pc[d] = "summarize" /\ Len(errors'[d]) = Len(errors[d]) + 1

\* The failure of the attempt made in this step.
Failure(d) == errors'[d][Len(errors'[d])]

\* C30 (as stated): only a rate-limit failure is retried; after any other
\* failure the summarization makes no further attempt and goes to the
\* fallback summary.
C30_OnlyRateLimitRetried ==
    [][\A d \in Deliveries :
          (AttemptFails(d) /\ Failure(d) # "429")
          => pc'[d] = "final_check" /\ mom'[d] = "fallback"]_vars

\* C30 (amended): the summarization makes at most MaxRetries attempts; only
\* an authentication failure ends it at once; a rate-limit failure and
\* every other failure are retried alike until the last attempt; when it
\* ends without a summary it goes to the fallback summary.
C30_OnlyAuthFailureEndsAtOnce ==
    [][\A d \in Deliveries :
          AttemptFails(d)
          => /\ Len(errors'[d]) <= MaxRetries
             /\ IF Failure(d) # "401" /\ Len(errors'[d]) < MaxRetries
                THEN pc'[d] = "summarize" /\ mom'[d] = mom[d]
                ELSE pc'[d] = "final_check" /\ mom'[d] = "fallback"]_vars

\* A summarization retried after a failure that was not a rate limit and
\* then ended on an authentication failure with the fallback summary.
C30_Witness ==
    \E d \in Deliveries :
        /\ pc[d] = "final_check"
        /\ errors[d] = <<"other_error", "401">>
        /\ mom[d] = "fallback"

\* C31: the summarization makes at most MaxRetries attempts, leaves only
\* to the final check (it raises nothing into the run), and leaves with a
\* text that is not empty, whatever the collaborator answers.
C31_SummarizationReturnsText ==
    [][\A d \in Deliveries :
          pc[d] = "summarize"
          => /\ Len(errors'[d]) <= MaxRetries
             /\ pc'[d] \in {"summarize", "final_check"}
             /\ (Moves(d) => mom'[d] # "")]_vars

\* The text and the posted flag run d passes to mark_call_processed in
\* this step: (transcription, success) after the notification,
\* ("Error: ...", False) in the except clause.
CommittedText(d) == IF pc[d] = "commit" THEN transcription[d] ELSE "Error: exception"

CommittedPosted(d) == pc[d] = "commit" /\ success[d]

\* C32: a commit writes the text and the posted flag it is given and phase
\* completed exactly when posted is true (failed otherwise), whatever the
\* record was before; a commit of the outcome the record already holds
\* changes nothing but the time; the later of two commits determines the
\* record.
C32_CommitOverwrites ==
    [][\A d \in Deliveries :
          Commits(d)
          => LET old == store[call[d]]
                 new == store'[call[d]]
             IN /\ new # NoRecord
                /\ new.text = CommittedText(d)
                /\ new.posted = CommittedPosted(d)
                /\ new.status = (IF CommittedPosted(d) THEN "completed" ELSE "failed")
                /\ (old # NoRecord /\ old.text = CommittedText(d)
                      /\ old.posted = CommittedPosted(d)
                      /\ old.status \in {"completed", "failed"}
                      /\ (old.status = "completed" <=> old.posted))
                   => new = [old EXCEPT !.processed_at = now]]_vars

\* Two runs of one call_id have both committed after a delivered
\* notification: the second commit overwrote the record of the first.
C32_Witness ==
    \E d, e \in Deliveries :
        /\ d # e /\ call[d] = call[e]
        /\ ending[d] = "committed" /\ ending[e] = "committed"
        /\ commits[d] = 1 /\ commits[e] = 1
        /\ notified[call[d]] >= 2
        /\ store[call[d]] # NoRecord /\ store[call[d]].status = "completed"

\* The record of call_id c exists with posted = true.
PostedRecord(c) == store[c] \in Records /\ store[c].posted

\* The responses the handler gives after layer 1 let the delivery through.
AfterLayer1 == {"time_window", "not_configured", "unauthorized", "category_skip"}

\* C33: the posted check answers true exactly when a record of the call_id
\* exists with posted = true (false for a processing, failed or absent
\* record), at layer 1 of the handler and at the final re-check of a run,
\* and the check changes no record.
C33_PostedCheckReadsOnly ==
    [][\A d \in Deliveries :
          /\ (pc[d] = "new" /\ Moves(d))
             => /\ store' = store
                /\ result'[d] = "duplicate_layer1" => PostedRecord(call'[d])
                /\ (result'[d] \in AfterLayer1 \/ pc'[d] = "claim_select")
                   => ~PostedRecord(call'[d])
          /\ (pc[d] = "final_check" /\ Moves(d))
             => /\ store' = store
                /\ pc'[d] = "finally" => PostedRecord(call[d])
                /\ pc'[d] = "commit" => ~PostedRecord(call[d])]_vars

\* One delivery of a call_id passed the posted check and was claimed, a
\* later one was answered by it as a duplicate.
C33_Witness ==
    \E d, e \in Deliveries :
        /\ call[d] = call[e]
        /\ result[e] = "Claimed" /\ ending[e] = "committed"
        /\ result[d] = "duplicate_layer1" /\ redelivery[d]
        /\ PostedRecord(call[d])

\* The responses the handler gives before it looks at the timestamp.
BeforeAgeCheck ==
    {"validation_error", "skipped_inbound", "store_fault", "duplicate_layer1"}

\* C34: a delivery that reaches the time validation with a timestamp further
\* than the window from the current time, in the past or in the future, is
\* rejected softly (HTTP 200, no run, store unchanged); one whose timestamp
\* is missing, cannot be parsed or lies inside the window is not rejected by
\* the time validation.
C34_FarEventsRejected ==
    [][\A d \in Deliveries :
          (pc[d] = "new" /\ Moves(d) /\ result'[d] \notin BeforeAgeCheck)
          => /\ payload'[d].far => /\ result'[d] = "time_window"
                                    /\ HttpStatus(result'[d]) = 200
                                    /\ pc'[d] = "responded"
                                    /\ store' = store
             /\ ~payload'[d].far => result'[d] # "time_window"]_vars

\* The step is a call of lookup_customer.
Looks == calls' = calls + 1

\* C35: lookup_customer always returns (a customer or None); the cache is
\* reloaded only when it was never loaded or its last successful refresh is
\* more than one interval old, and then either it is reloaded from the
\* sheet or the reload has failed (or there is no client): the cache,
\* cache_loaded and the refresh time stay as they were and the lookup
\* returns None.
C35_LookupDegrades ==
    [][Looks
       => /\ answer'.result \in {"found", "not_found"}
          /\ IF \/ ~cache_loaded
                \/ /\ last_cache_refresh # NoRefresh
                   /\ clock - last_cache_refresh > cache_refresh_interval
             THEN \/ /\ cache' = sheet
                     /\ cache_loaded'
                     /\ last_cache_refresh' = clock
                  \/ /\ answer'.result = "not_found"
                     /\ UNCHANGED <<cache, cache_loaded, last_cache_refresh>>
             ELSE UNCHANGED <<cache, cache_loaded, last_cache_refresh>>]_vars

\* The refresh of an expired cache failed: the lookup of a customer the
\* cache has kept was answered None.
C35_Witness ==
    /\ cache_loaded
    /\ clock - last_cache_refresh > cache_refresh_interval
    /\ answer.phone \in cache
    /\ answer.result = "not_found"

\* A record cleanup option 1 has reset: phase failed with the text of the
\* claim still in place (a commit always replaces that text).
ResetRow(row) ==
    row # NoRecord /\ ~row.posted /\ row.status = "failed" /\ row.text = "Processing..."

\* C36: a delivery whose try_claim reads a record that cleanup option 1 has
\* reset re-claims it.
C36_ResetAllowsRetry ==
    [][\A d \in Deliveries :
          (Reads(d) /\ ResetRow(store[call[d]]))
          => plan'[d] = "update" /\ pc'[d] = "claim_write"]_vars

\* C37: when the commit that follows a delivered notification fails and the
\* exception handler commits instead, the record of the call_id is left
\* with posted = true.
C37_NotifiedStaysPosted ==
    [][\A d \in Deliveries :
          (pc[d] = "except" /\ success[d] /\ Moves(d))
          => /\ store'[call[d]] # NoRecord
             /\ store'[call[d]].posted]_vars

\* C38: the startup emergency cleanup and options 1, 2 and 3 of the cleanup
\* script leave every record whose posted flag is true as it is.
C38_MaintenanceSparesPosted ==
    \A c \in CallIds :
        (store[c] # NoRecord /\ store[c].posted)
        => /\ EmergencyCleanedRow(store[c], now) = store[c]
           /\ Option1Row(store[c], now) = store[c]
           /\ Option2Row(store[c]) = store[c]
           /\ Option3Row(store[c], now) = store[c]

\* C39: a run that waits in acquire eventually obtains a slot, and a run
\* that holds a slot eventually releases it.
C39_WaitingRunAcquires ==
    \A d \in Deliveries :
        /\ (pc[d] = "queued") ~> Holding(d)
        /\ Holding(d) ~> (pc[d] = "done")

\* With one slot, one run is over and a second run holds the slot.
C39_Witness ==
    /\ MAX_CONCURRENT_CALLS = 1
    /\ \E d, e \in Deliveries :
        /\ d # e
        /\ result[d] = "Claimed" /\ pc[d] = "done"
        /\ result[e] = "Claimed" /\ Holding(e)
====
